---- MODULE Spec2Model ----
(***************************************************************************)
(* A model of the MassBalanceMachine data preparation code:                *)
(*   - dataloader/DataLoader.py: the stateful DataLoader object with its   *)
(*     grouped train/test split and its k-fold cross-validation splits;    *)
(*   - data_processing/get_climate_data.py: the climate feature extractor  *)
(*     get_climate_features and its helper functions.                      *)
(*                                                                         *)
(* Conventions.  Python positions are 0-based and are kept 0-based as      *)
(* VALUES; TLA+ sequences are 1-based, so the row at position p of a table *)
(* t is t[p + 1].  An attribute that may be None is a sequence of length   *)
(* at most one: None is << >> and a set attribute x is << x >>.            *)
(***************************************************************************)
EXTENDS Integers, Sequences, FiniteSets, TLC

VARIABLES
    \* ---- DataLoader object (DataLoader.py) ----
    data,            \* self.data: sequence of rows [ID, RGIId]
    random_seed,     \* self.random_seed
    test_size,       \* self.test_size (None or tenths: 3 stands for 0.3)
    n_splits,        \* self.n_splits (None or an integer)
    cv_split,        \* self.cv_split (None or a list of (train, test) pairs)
    train_indices,   \* self.train_indices (None or an index array)
    test_indices,    \* self.test_indices (None or an index array)
    ret,             \* outcome of the last method call on the DataLoader
    \* ---- get_climate_features (get_climate_data.py) ----
    pc,              \* position inside get_climate_features
    df,              \* the stake measurement table
    ds_climate,      \* the loaded climate dataset
    ds_geopotential, \* the terrain dataset, as transformed step by step
    climate_df,      \* result of _process_climate_data
    altitude_df,     \* result of _process_altitude_data
    raised,          \* exception raised by get_climate_features, or "none"
    args,            \* the arguments of get_climate_features and the files
    csv              \* the table written to output_fname (None before)

loaderVars == <<data, random_seed, test_size, n_splits, cv_split,
                train_indices, test_indices, ret>>
climateVars == <<pc, df, ds_climate, ds_geopotential, climate_df,
                 altitude_df, raised, args, csv>>
vars == <<loaderVars, climateVars>>

-----------------------------------------------------------------------------
(* Bounds of the model. *)

MaxRows == 4        \* rows of the table handed to the DataLoader
MaxSplits == 3      \* n_splits arguments 2..MaxSplits

\* The stake measurements the rows of a table are drawn from: a measurement
\* ID (column ID) and the glacier it lies on (column RGIId).
Measurements == {[ID |-> 1, RGIId |-> 1], [ID |-> 2, RGIId |-> 1],
                 [ID |-> 3, RGIId |-> 2]}
Seeds == {5, 42}            \* random_seed arguments (42 is the default)
TestSizes == {3, 5}         \* test_size arguments in tenths: 0.3, 0.5
FoldTypes == {"random", "group-rgi", "group-meas-id"}

-----------------------------------------------------------------------------
(* None-able attributes. *)

None == << >>
Some(x) == << x >>
IsNone(x) == x = << >>
Val(x) == x[1]

-----------------------------------------------------------------------------
(* numpy helpers. *)

RECURSIVE SortedSeq(_)
\* The elements of a finite set of integers as an ascending sequence.
SortedSeq(S) ==
    IF S = {} THEN << >>
    ELSE LET m == CHOOSE x \in S : \A y \in S : x <= y
         IN  <<m>> \o SortedSeq(S \ {m})

Range(s) == {s[i] : i \in 1..Len(s)}

\* np.unique(values): the distinct values, ascending.
Unique(values) == SortedSeq(Range(values))

\* np.unique(values, return_inverse=True)[1]: for every element the 0-based
\* position of its value in Unique(values).
UniqueInverse(values) ==
    LET u == Unique(values)
    IN  [i \in 1..Len(values) |->
            (CHOOSE j \in 1..Len(u) : u[j] = values[i]) - 1]

\* np.flatnonzero(mask) / np.where(mask)[0]: ascending 0-based positions.
FlatNonzero(mask) == SortedSeq({i - 1 : i \in {j \in 1..Len(mask) : mask[j]}})

\* a[indices] for a 0-based index array; DataFrame.iloc[indices] likewise.
Take(a, indices) == [i \in 1..Len(indices) |-> a[indices[i] + 1]]

\* a[start:stop] for 0-based start and stop within the array.
Slice(a, start, stop) == [i \in 1..(stop - start) |-> a[start + i]]

RECURSIVE Arrangements(_)
\* The sequences that hold every element of the finite set S once.
Arrangements(S) ==
    IF S = {} THEN {<< >>}
    ELSE UNION {{<<x>> \o p : p \in Arrangements(S \ {x})} : x \in S}

\* RandomState(seed).permutation(n) as numpy's Mersenne Twister (MT19937,
\* seeded by init_genrand, shuffled from the last position down with masked
\* rejection sampling) computes it, for the seeds 0, 5 and 42 and n up to 6.
MT19937Permutation ==
    <<0, 1>> :> <<0>> @@
    <<0, 2>> :> <<1, 0>> @@
    <<0, 3>> :> <<2, 1, 0>> @@
    <<0, 4>> :> <<2, 3, 1, 0>> @@
    <<0, 5>> :> <<2, 0, 1, 3, 4>> @@
    <<0, 6>> :> <<5, 2, 1, 3, 0, 4>> @@
    <<5, 1>> :> <<0>> @@
    <<5, 2>> :> <<0, 1>> @@
    <<5, 3>> :> <<0, 1, 2>> @@
    <<5, 4>> :> <<0, 1, 2, 3>> @@
    <<5, 5>> :> <<4, 0, 1, 2, 3>> @@
    <<5, 6>> :> <<5, 2, 4, 1, 0, 3>> @@
    <<42, 1>> :> <<0>> @@
    <<42, 2>> :> <<1, 0>> @@
    <<42, 3>> :> <<0, 1, 2>> @@
    <<42, 4>> :> <<1, 3, 0, 2>> @@
    <<42, 5>> :> <<1, 4, 2, 0, 3>> @@
    <<42, 6>> :> <<0, 1, 5, 2, 4, 3>>

\* The arrays RandomState(seed).permutation(n) can return, which are also
\* what RandomState(seed).shuffle(np.arange(n)) can leave in the array on a
\* fresh generator: the array of the table above, and for a seed or a length
\* the table lacks any permutation of 0..n-1.
RandomStatePermutations(seed, n) ==
    IF <<seed, n>> \in DOMAIN MT19937Permutation
    THEN {MT19937Permutation[<<seed, n>>]}
    ELSE Arrangements(0..(n - 1))

-----------------------------------------------------------------------------
(* scikit-learn splitters, as the DataLoader uses them. *)

\* _validate_shuffle_split with a float test_size t/10 and train_size=None:
\* n_test = ceil(test_size * n), n_train = n - n_test.
NTest(t, n) == (t * n + 9) \div 10

\* GroupShuffleSplit(n_splits=1, test_size=t/10).split raises ValueError when
\* test_size is outside (0, 1) or the resulting train set is empty.
GroupShuffleSplitRaises(groups, t) ==
    LET n == Len(Unique(groups))
    IN  \/ t <= 0
        \/ t >= 10
        \/ n - NTest(t, n) <= 0

GroupShuffleSplitRows_mut(groups, t, perm) ==
    LET n         == Len(Unique(groups))
        inv       == [i \in 1..Len(groups) |-> (i - 1) % n]
        nt        == NTest(t, n)
        ind_test  == Range(Slice(perm, 0, nt))
        ind_train == Range(Slice(perm, nt, n))
    IN  << FlatNonzero([i \in 1..Len(groups) |-> inv[i] \in ind_train]),
           FlatNonzero([i \in 1..Len(groups) |-> inv[i] \in ind_test]) >>

\* next(GroupShuffleSplit(n_splits=1, test_size=t/10, random_state=seed)
\*          .split(X, y, groups)):
\* the unique groups are permuted, the first n_test of the permutation are
\* the test groups and the rest the train groups; every row goes to the side
\* of its group.  `perm` is the permutation of the group numbers that the
\* generator has drawn.  Returns <<train row positions, test row positions>>.
GroupShuffleSplit(groups, t, perm) ==
    LET inv       == UniqueInverse(groups)
        n         == Len(Unique(groups))
        nt        == NTest(t, n)
        ind_test  == Range(Slice(perm, 0, nt))
        ind_train == Range(Slice(perm, nt, n))
    IN  << FlatNonzero([i \in 1..Len(groups) |-> inv[i] \in ind_train]),
           FlatNonzero([i \in 1..Len(groups) |-> inv[i] \in ind_test]) >>

\* np.bincount(inverse): rows per group, for groups 0..ng-1.
BinCount(inv, ng) ==
    [g \in 1..ng |-> Cardinality({i \in 1..Len(inv) : inv[i] = g - 1})]

\* np.argsort(counts)[::-1]: the 0-based group numbers by descending count.
\* numpy's default sort is not stable, so the order among equal counts is
\* whatever the build produces: every order consistent with the counts.
ArgSortsDescending(counts) ==
    {p \in Arrangements(0..(Len(counts) - 1)) :
        \A i \in 1..(Len(counts) - 1) :
            counts[p[i] + 1] >= counts[p[i + 1] + 1]}

\* np.argmin(weights): the 0-based position of the first minimum.
ArgMin(weights) ==
    (CHOOSE f \in 1..Len(weights) :
        /\ \A h \in 1..Len(weights) : weights[f] <= weights[h]
        /\ \A h \in 1..(f - 1) : weights[h] > weights[f]) - 1

RECURSIVE AssignGroups(_, _, _, _, _)
\* The loop of GroupKFold._iter_test_indices: the groups, heaviest first, go
\* each to the fold that is lightest so far.
AssignGroups(order, counts, i, weights, group_to_fold) ==
    IF i > Len(order) THEN group_to_fold
    ELSE LET g == order[i]
             f == ArgMin(weights)
         IN  AssignGroups(order, counts, i + 1,
                          [weights EXCEPT ![f + 1] = @ + counts[g + 1]],
                          [group_to_fold EXCEPT ![g + 1] = f])

\* The (train, test) pairs of a k-fold split given each row's fold number.
FoldsOf(row_fold, k) ==
    [f \in 1..k |->
        << FlatNonzero([i \in 1..Len(row_fold) |-> row_fold[i] # f - 1]),
           FlatNonzero([i \in 1..Len(row_fold) |-> row_fold[i] = f - 1]) >>]

\* GroupKFold(n_splits=k).split raises ValueError for k < 2, for more folds
\* than rows and for more folds than groups.
GroupKFoldRaises(groups, k) ==
    \/ k <= 1
    \/ k > Len(groups)
    \/ k > Len(Unique(groups))

GroupKFoldByRow_mut(groups, k, order) ==
    FoldsOf([i \in 1..Len(groups) |-> (i - 1) % k], k)

\* list(GroupKFold(n_splits=k).split(X, y, groups)), given the outcome
\* `order` of the argsort of the group sizes.
GroupKFold(groups, k, order) ==
    LET inv    == UniqueInverse(groups)
        ng     == Len(Unique(groups))
        counts == BinCount(inv, ng)
        g2f    == AssignGroups(order, counts, 1,
                               [f \in 1..k |-> 0], [g \in 1..ng |-> 0])
    IN  FoldsOf([i \in 1..Len(groups) |-> g2f[inv[i] + 1]], k)

GroupKFoldOrders(groups) ==
    ArgSortsDescending(BinCount(UniqueInverse(groups), Len(Unique(groups))))

\* KFold(n_splits=k).split raises ValueError for k < 2 and for more folds
\* than rows.
KFoldRaises(n, k) ==
    \/ k <= 1
    \/ k > n

\* 0-based start of fold f (0-based) in the shuffled index array: the first
\* n % k folds have n // k + 1 rows, the others n // k.
FoldStart(n, k, f) == f * (n \div k) + (IF f < n % k THEN f ELSE n % k)

KFoldOverlapping_mut(n, k, indices) ==
        [f \in 1..k |->
            LET test == Range(Slice(indices, 0, FoldStart(n, k, f)))
            IN  << FlatNonzero([i \in 1..n |-> (i - 1) \notin test]),
                   FlatNonzero([i \in 1..n |-> (i - 1) \in test]) >>]

\* list(KFold(n_splits=k, shuffle=True, random_state=seed).split(X, y)) for
\* n rows: the shuffled positions `indices` are cut into k consecutive test
\* blocks.
KFold(n, k, indices) ==
        [f \in 1..k |->
            LET test == Range(Slice(indices, FoldStart(n, k, f - 1),
                                             FoldStart(n, k, f)))
            IN  << FlatNonzero([i \in 1..n |-> (i - 1) \notin test]),
                   FlatNonzero([i \in 1..n |-> (i - 1) \in test]) >>]

-----------------------------------------------------------------------------
(* DataLoader (dataloader/DataLoader.py). *)

Column(table, name) == [i \in 1..Len(table) |-> table[i][name]]

\* The tables a DataLoader is constructed on: 1..MaxRows rows, each one of the
\* Measurements (the columns the splits read).
Tables ==
    UNION {[1..n -> Measurements] : n \in 1..MaxRows}

Outcome(op, exc, tf) == [op |-> op, raised |-> exc, type_fold |-> tf]

\* DataLoader.__init__
InitLoader ==
    /\ data \in Tables
    /\ random_seed \in Seeds
    /\ n_splits = None
    /\ test_size = None
    /\ cv_split = None
    /\ train_indices = None
    /\ test_indices = None
    /\ ret = Outcome("__init__", "none", "none")

\* DataLoader._prepare_data_for_cv: the two group columns of a table.
glacier_ids(table) == Column(table, "RGIId")
stake_meas_id(table) == Column(table, "ID")

\* The check of DataLoader.set_train_test_split's assert: the measurement
\* IDs at the train positions and at the test positions do not intersect.
SplitAssertionHolds(table, train, test) ==
    Range(Take(stake_meas_id(table), train))
        \cap Range(Take(stake_meas_id(table), test)) = {}

\* DataLoader.set_train_test_split(test_size=t/10)
set_train_test_split(t) ==
    /\ test_size' = Some(t)
    /\ IF GroupShuffleSplitRaises(stake_meas_id(data), t)
       THEN /\ ret' = Outcome("set_train_test_split", "ValueError", "none")
            /\ UNCHANGED <<train_indices, test_indices>>
       ELSE \E perm \in RandomStatePermutations(random_seed,
                                    Len(Unique(stake_meas_id(data)))) :
            LET split == GroupShuffleSplit(stake_meas_id(data), t, perm)
            IN  IF ~SplitAssertionHolds(data, split[1], split[2])
                THEN /\ ret' = Outcome("set_train_test_split",
                                       "AssertionError", "none")
                     /\ UNCHANGED <<train_indices, test_indices>>
                ELSE /\ train_indices' = Some(split[1])
                     /\ test_indices' = Some(split[2])
                     /\ ret' = Outcome("set_train_test_split", "none", "none")
    /\ UNCHANGED <<data, random_seed, n_splits, cv_split>>

_validate_train_iterator_mut == IsNone(test_size)

\* DataLoader._validate_train_iterator: TRUE when it raises ValueError.
_validate_train_iterator == IsNone(train_indices)

_get_train_data_full_mut == data

\* DataLoader._get_train_data
_get_train_data == Take(data, Val(train_indices))

\* Whether DataLoader._create_group_kfold_splits raises (inside sklearn) for
\* the training table, with self.n_splits = k.
CreateSplitsRaises(train_data, k, type_fold) ==
    IF type_fold = "group-rgi"
    THEN GroupKFoldRaises(glacier_ids(train_data), k)
    ELSE IF type_fold = "group-meas-id"
    THEN GroupKFoldRaises(stake_meas_id(train_data), k)
    ELSE KFoldRaises(Len(train_data), k)

\* DataLoader._create_group_kfold_splits: the lists of folds it can return.
_create_group_kfold_splits(train_data, k, type_fold) ==
    IF type_fold = "group-rgi"
    THEN {GroupKFold(glacier_ids(train_data), k, order) :
             order \in GroupKFoldOrders(glacier_ids(train_data))}
    ELSE IF type_fold = "group-meas-id"
    THEN {GroupKFold(stake_meas_id(train_data), k, order) :
             order \in GroupKFoldOrders(stake_meas_id(train_data))}
    ELSE {KFold(Len(train_data), k, indices) :
             indices \in RandomStatePermutations(random_seed, Len(train_data))}

\* DataLoader.get_cv_split(n_splits=k, type_fold=type_fold)
get_cv_split(k, type_fold) ==
    /\ n_splits' = Some(k)
    /\ IF _validate_train_iterator
       THEN /\ ret' = Outcome("get_cv_split", "ValueError: not split",
                              type_fold)
            /\ UNCHANGED cv_split
       ELSE IF IsNone(train_indices)
       THEN \* self.data.iloc[None]
            /\ ret' = Outcome("get_cv_split", "TypeError", type_fold)
            /\ UNCHANGED cv_split
       ELSE IF CreateSplitsRaises(_get_train_data, k, type_fold)
       THEN /\ ret' = Outcome("get_cv_split", "ValueError", type_fold)
            /\ UNCHANGED cv_split
       ELSE /\ \E splits \in
                   _create_group_kfold_splits(_get_train_data, k, type_fold) :
                   cv_split' = Some(splits)
            /\ ret' = Outcome("get_cv_split", "none", type_fold)
    /\ UNCHANGED <<data, random_seed, test_size, train_indices, test_indices>>

SplitStep ==
    /\ \E t \in TestSizes : set_train_test_split(t)
    /\ UNCHANGED climateVars

FoldStep ==
    /\ \E k \in 2..MaxSplits, type_fold \in FoldTypes :
          get_cv_split(k, type_fold)
    /\ UNCHANGED climateVars

ClimateIdle ==
    /\ pc = "idle"
    /\ df = << >>
    /\ ds_climate = << >>
    /\ ds_geopotential = << >>
    /\ climate_df = << >>
    /\ altitude_df = << >>
    /\ raised = "none"
    /\ args = << >>
    /\ csv = << >>

Init == InitLoader /\ ClimateIdle

Next == SplitStep \/ FoldStep

Spec == Init /\ [][Next]_vars

-----------------------------------------------------------------------------
(* Properties of the DataLoader, checked under Spec. *)

\* The last call on the DataLoader was op and it returned.
Returned(op) == ret.op = op /\ ret.raised = "none"

Occurrences(s, x) == Cardinality({i \in 1..Len(s) : s[i] = x})

\* The values of a column of the training subset at the given positions
\* (positions within the training subset).
TrainKeys(name, positions) ==
    Range(Take(Column(Take(data, Val(train_indices)), name), positions))

\* C1: whenever set_train_test_split has returned, the measurement IDs of
\* the rows at train_indices and of the rows at test_indices are disjoint,
\* and the assertion that guards this never fails.
TrainTestIdsDisjoint ==
    /\ ret.raised # "AssertionError"
    /\ ~IsNone(train_indices) =>
          Range(Take(Column(data, "ID"), Val(train_indices)))
              \cap Range(Take(Column(data, "ID"), Val(test_indices))) = {}

\* C1 witness: a split has returned on a table in which one measurement ID
\* has several rows, and both sides are populated.
TrainTestIdsDisjointWitness ==
    /\ Returned("set_train_test_split")
    /\ Len(Val(train_indices)) >= 2
    /\ Len(Val(test_indices)) >= 2
    /\ \E i, j \in 1..Len(data) : i # j /\ data[i].ID = data[j].ID

\* C2: get_cv_split on a DataLoader that has not been split raises the
\* "not split" ValueError and stores no folds; no folds exist while the
\* DataLoader is unsplit.
UnsplitGetCvSplitRaises ==
    IsNone(train_indices) =>
        /\ IsNone(cv_split)
        /\ ret.op = "get_cv_split" => ret.raised = "ValueError: not split"

\* C2 witness: get_cv_split was called after a set_train_test_split that
\* failed, so the DataLoader is still unsplit.
UnsplitGetCvSplitRaisesWitness ==
    /\ ret.op = "get_cv_split"
    /\ IsNone(train_indices)
    /\ ~IsNone(test_size)
    /\ ~IsNone(n_splits)

GroupColumn(type_fold) == IF type_fold = "group-rgi" THEN "RGIId" ELSE "ID"

\* C3: in every fold returned by get_cv_split for a grouped fold type, no
\* value of the grouping column occurs on both the train and the validation
\* side.
GroupFoldsKeepGroups ==
    (Returned("get_cv_split") /\ ret.type_fold \in {"group-rgi", "group-meas-id"})
        => \A f \in 1..Len(Val(cv_split)) :
              TrainKeys(GroupColumn(ret.type_fold), Val(cv_split)[f][1])
                \cap TrainKeys(GroupColumn(ret.type_fold), Val(cv_split)[f][2])
                 = {}

\* C3 witness: grouped folds were returned, and in one of them a group of
\* two rows sits on the validation side.
GroupFoldsKeepGroupsWitness ==
    /\ Returned("get_cv_split")
    /\ ret.type_fold \in {"group-rgi", "group-meas-id"}
    /\ \E f \in 1..Len(Val(cv_split)) :
          LET test == Val(cv_split)[f][2]
              keys == Take(Column(Take(data, Val(train_indices)),
                                  GroupColumn(ret.type_fold)), test)
          IN  /\ Len(test) >= 2
              /\ \E i, j \in 1..Len(test) : i # j /\ keys[i] = keys[j]
              /\ Len(Val(cv_split)[f][1]) >= 1

\* C4: get_cv_split returns exactly n_splits pairs of positions within the
\* training subset, and every position of the training subset is on the
\* validation side of exactly one fold.
FoldsPartitionTrainSubset ==
    Returned("get_cv_split") =>
        LET folds == Val(cv_split)
            n     == Len(Val(train_indices))
        IN  /\ Len(folds) = Val(n_splits)
            /\ \A f \in 1..Len(folds) :
                  Range(folds[f][1]) \cup Range(folds[f][2]) \subseteq 0..(n - 1)
            /\ \A p \in 0..(n - 1) :
                  /\ Cardinality({f \in 1..Len(folds) :
                                     p \in Range(folds[f][2])}) = 1
                  /\ \A f \in 1..Len(folds) : Occurrences(folds[f][2], p) <= 1

\* C4 witness: three folds were returned for a training subset whose
\* positions differ from the positions in the full table.
FoldsPartitionTrainSubsetWitness ==
    /\ Returned("get_cv_split")
    /\ Val(n_splits) = 3
    /\ Len(Val(cv_split)) = 3
    /\ \E p \in 1..Len(Val(train_indices)) : Val(train_indices)[p] # p - 1

\* The stored folds refer to the current training subset: every index is a
\* position in train_indices and the validation sides cover all positions.
FoldsCurrent ==
    LET folds == Val(cv_split)
        n     == Len(Val(train_indices))
    IN  /\ \A f \in 1..Len(folds) :
              Range(folds[f][1]) \cup Range(folds[f][2]) \subseteq 0..(n - 1)
        /\ UNION {Range(folds[f][2]) : f \in 1..Len(folds)} = 0..(n - 1)

\* C10 as claimed: whenever cv_split is set, the stored folds refer to the
\* current training subset.
StoredFoldsAlwaysCurrent == ~IsNone(cv_split) => FoldsCurrent

\* C10 as amended: a step that stores folds stores folds of the current
\* training subset, and stored folds stay current over every step that
\* leaves train_indices as it is.
StoredFoldsCurrentUntilResplit ==
    [][(/\ ~IsNone(cv_split')
        /\ \/ cv_split' # cv_split
           \/ (~IsNone(cv_split) /\ FoldsCurrent
                  /\ train_indices' = train_indices))
       => FoldsCurrent']_vars

\* C10 witness: folds were stored, then set_train_test_split returned again
\* and the stored folds are still those of the training subset.
StoredFoldsCurrentUntilResplitWitness ==
    /\ Returned("set_train_test_split")
    /\ ~IsNone(cv_split)
    /\ FoldsCurrent
    /\ Len(Val(cv_split)) = 3

-----------------------------------------------------------------------------
(* Calendar and pandas date ranges (get_climate_data.py). *)

\* A float cell that may be missing: NaN is << >> and the number x is <<x>>.
NaN == << >>
Num(x) == << x >>
IsNaN(x) == x = << >>

\* A timestamp is <<year, month, day>>.
IsLeap(y) == (y % 4 = 0 /\ y % 100 # 0) \/ y % 400 = 0

DaysInMonth(y, m) ==
    IF m = 2 THEN (IF IsLeap(y) THEN 29 ELSE 28)
    ELSE IF m \in {4, 6, 9, 11} THEN 30 ELSE 31

\* The days of the year y before its month m.
DaysBeforeMonth(y, m) ==
    <<0, 31, 59, 90, 120, 151, 181, 212, 243, 273, 304, 334>>[m]
        + (IF m > 2 /\ IsLeap(y) THEN 1 ELSE 0)

\* The proleptic Gregorian ordinal of a timestamp (0001-01-01 is day 1).
DayNumber(d) ==
    LET y == d[1] - 1
    IN  365 * y + (y \div 4) - (y \div 100) + (y \div 400)
          + DaysBeforeMonth(d[1], d[2]) + d[3]

IsMonthEnd(d) == d[3] = DaysInMonth(d[1], d[2])

\* MonthEnd.rollforward: the timestamp itself when it is a month end, else
\* the end of its month.
RollForward(d) == <<d[1], d[2], DaysInMonth(d[1], d[2])>>

\* MonthEnd.rollback: the timestamp itself when it is a month end, else the
\* end of the month before.
RollBack(d) ==
    IF IsMonthEnd(d) THEN d
    ELSE IF d[2] = 1 THEN <<d[1] - 1, 12, 31>>
    ELSE <<d[1], d[2] - 1, DaysInMonth(d[1], d[2] - 1)>>

\* timestamp + MonthEnd(1) for a timestamp that is a month end.
NextMonthEnd(d) ==
    IF d[2] = 12 THEN <<d[1] + 1, 1, 31>>
    ELSE <<d[1], d[2] + 1, DaysInMonth(d[1], d[2] + 1)>>

RECURSIVE GenerateRange(_, _)
GenerateRange(cur, end) ==
    IF DayNumber(cur) > DayNumber(end) THEN << >>
    ELSE <<cur>> \o GenerateRange(NextMonthEnd(cur), end)

\* pd.date_range(start=start, end=end, freq="ME"): the month ends from
\* start to end, both inclusive.
DateRangeME(start, end) == GenerateRange(RollForward(start), RollBack(end))

_create_date_range_mut(year) ==
    IF IsNaN(year) THEN None
    ELSE Some(DateRangeME(<<year[1], 9, 1>>, <<year[1] + 1, 9, 1>>))

\* _create_date_range(year): None for a missing year, else the month ends
\* from September 1 of the year before to September 1 of the year.
_create_date_range(year) ==
    IF IsNaN(year) THEN None
    ELSE Some(DateRangeME(<<year[1] - 1, 9, 1>>, <<year[1], 9, 1>>))

-----------------------------------------------------------------------------
(* pandas DataFrames: ordered columns, index labels, rows of cells.  A      *)
(* column name is a sequence of strings: <<"ID">> is "ID" and               *)
(* <<"t2m", "_oct">> is "t2m_oct".                                          *)

Frame(columns, index, rows) ==
    [columns |-> columns, index |-> index, rows |-> rows]

RangeIndex(n) == [i \in 1..n |-> i - 1]

ColIndex(f, name) == CHOOSE j \in 1..Len(f.columns) : f.columns[j] = name

\* f[name].values
ColumnValues(f, name) ==
    [i \in 1..Len(f.rows) |-> f.rows[i][ColIndex(f, name)]]

RECURSIVE SelectSeq2(_, _, _)
\* The elements s[i] of s, in order, for the positions i in keep.
SelectSeq2(s, keep, i) ==
    IF i > Len(s) THEN << >>
    ELSE (IF i \in keep THEN <<s[i]>> ELSE << >>) \o SelectSeq2(s, keep, i + 1)

\* f.drop(columns=names)
DropColumns(f, names) ==
    LET keep == {j \in 1..Len(f.columns) : f.columns[j] \notin names}
    IN  Frame(SelectSeq2(f.columns, keep, 1), f.index,
              [i \in 1..Len(f.rows) |-> SelectSeq2(f.rows[i], keep, 1)])

\* f.reset_index(drop=True)
ResetIndex(f) == Frame(f.columns, RangeIndex(Len(f.rows)), f.rows)

\* f[name] = values: a new last column, or new values in the column of
\* that name.
AddColumn(f, name, values) ==
    IF name \in Range(f.columns)
    THEN Frame(f.columns, f.index,
               [i \in 1..Len(f.rows) |->
                   [f.rows[i] EXCEPT ![ColIndex(f, name)] = values[i]]])
    ELSE Frame(Append(f.columns, name), f.index,
               [i \in 1..Len(f.rows) |-> Append(f.rows[i], values[i])])

\* f.rename(columns={old: new})
RenameColumn(f, old, new) ==
    Frame([j \in 1..Len(f.columns) |->
              IF f.columns[j] = old THEN new ELSE f.columns[j]],
          f.index, f.rows)

\* f.dropna(subset=[name])
DropNa(f, name) ==
    LET keep == {i \in 1..Len(f.rows) : ~IsNaN(f.rows[i][ColIndex(f, name)])}
    IN  Frame(f.columns, SelectSeq2(f.index, keep, 1),
              SelectSeq2(f.rows, keep, 1))

RECURSIVE UnionIndex(_, _)
\* The labels of the second index that the first lacks, appended to it.
UnionIndex(a, b) ==
    IF b = << >> THEN a
    ELSE UnionIndex(IF Head(b) \in Range(a) THEN a ELSE Append(a, Head(b)),
                    Tail(b))

\* The row of f labelled l, or a row of NaN when f has no such label.
RowAt(f, l) ==
    IF l \in Range(f.index)
    THEN f.rows[CHOOSE i \in 1..Len(f.index) : f.index[i] = l]
    ELSE [j \in 1..Len(f.columns) |-> NaN]

\* pd.concat([a, b, c], axis=1): the columns side by side, the rows matched
\* on their index labels (an outer join).
Concat3(a, b, c) ==
    LET index == UnionIndex(UnionIndex(a.index, b.index), c.index)
    IN  Frame(a.columns \o b.columns \o c.columns, index,
              [i \in 1..Len(index) |->
                  RowAt(a, index[i]) \o RowAt(b, index[i]) \o RowAt(c, index[i])])

-----------------------------------------------------------------------------
(* xarray datasets. *)

Abs(x) == IF x < 0 THEN 0 - x ELSE x

\* The position in an index of unique coordinates of the coordinate nearest
\* to x (pandas get_indexer(method="nearest")); of two equally near
\* coordinates the larger is taken.
RECURSIVE NearestFrom(_, _, _, _)
\* The nearest to x among coords[best] and the coordinates from position i.
NearestFrom(coords, x, i, best) ==
    IF i > Len(coords) THEN best
    ELSE IF \/ Abs(coords[i] - x) < Abs(coords[best] - x)
            \/ (Abs(coords[i] - x) = Abs(coords[best] - x)
                  /\ coords[i] > coords[best])
         THEN NearestFrom(coords, x, i + 1, i)
         ELSE NearestFrom(coords, x, i + 1, best)

NearestIndex(coords, x) == NearestFrom(coords, x, 2, 1)

HasDuplicates(s) == \E i, j \in 1..Len(s) : i # j /\ s[i] = s[j]

-----------------------------------------------------------------------------
(* Inputs of get_climate_features. *)

MaxRecords == 2     \* rows of the stake measurement table
MaxLons == 3        \* longitudes of the terrain grids of SpecLongitude
AxisMonths == 24    \* monthly timestamps of the climate dataset

MonthsPerYear == 12
KelvinOffset == 27315     \* 273.15, temperatures being kept in 1/100 K
r_earth == 63674700       \* 6367.47 * 10e3
g_e5 == 980665            \* g = 9.80665, times 10^5

\* A height of x metres, heights being kept in 1/100 m.
Metres(x) == 100 * x

ID == <<"ID">>
POINT_LAT == <<"POINT_LAT">>
POINT_LON == <<"POINT_LON">>
POINT_ELEVATION == <<"POINT_ELEVATION">>
YEAR == <<"YEAR">>
range_date == <<"range_date">>

StakeColumns == <<ID, POINT_LAT, POINT_LON, POINT_ELEVATION, YEAR>>

\* The stake measurements the rows of the input table are drawn from.
Stakes == {<<Num(1), Num(46), Num(7), Num(Metres(1000)), Num(2000)>>,
           <<Num(2), Num(47), Num(8), Num(Metres(2500)), Num(2001)>>,
           <<Num(3), Num(48), Num(6), Num(Metres(3000)), NaN>>,
           <<Num(4), Num(45), Num(9), Num(Metres(1500)), Num(2100)>>}

\* The input tables: 1..MaxRecords stakes, under a default index or under
\* the index labels a filtered table keeps.
InputFrames ==
    UNION {{Frame(StakeColumns, index, rows) :
               rows \in [1..n -> Stakes],
               index \in {RangeIndex(n), [i \in 1..n |-> 2 * i + 1]}} :
           n \in 1..MaxRecords}

\* The k-th (0-based) month from September 1999 on, as <<year, month>>.
AxisMonth(k) == <<1999 + (8 + k) \div 12, ((8 + k) % 12) + 1>>

\* Monthly time axes: stamped on the first or on the last day of the month.
MonthStartAxis ==
    [k \in 1..AxisMonths |-> <<AxisMonth(k - 1)[1], AxisMonth(k - 1)[2], 1>>]
MonthEndAxis ==
    [k \in 1..AxisMonths |->
        <<AxisMonth(k - 1)[1], AxisMonth(k - 1)[2],
          DaysInMonth(AxisMonth(k - 1)[1], AxisMonth(k - 1)[2])>>]

ClimateVariables == <<"t2m", "tp">>

\* A climate dataset as loaded: its coordinates, and whether t2m has been
\* converted and the expver dimension reduced.  Its cells are ClimateCell.
ClimateDataset(time) ==
    [latitude |-> <<47, 46>>, longitude |-> <<7, 8>>, time |-> time,
     celsius |-> FALSE, reduced |-> FALSE]

ClimateFiles == {Some(ClimateDataset(MonthStartAxis)),
                 Some(ClimateDataset(MonthEndAxis))}

\* A terrain dataset: coordinates, the geopotential z[latitude][longitude]
\* and, once derived, altitude_climate.
TerrainDataset(longitude, z) ==
    [latitude |-> <<47, 46>>, longitude |-> longitude, z |-> z,
     altitude_climate |-> << >>]

TerrainFiles ==
    {None,
     Some(TerrainDataset(<<0, 7, 8, 350>>,
                         << <<Num(0), Num(9807), Num(19613), Num(0)>>,
                            <<Num(0), Num(4903), Num(14710), Num(0)>> >>)),
     Some(TerrainDataset(<<0, 7, 8, 350>>,
                         << <<Num(0), NaN, Num(19613), Num(0)>>,
                            <<Num(0), NaN, Num(14710), Num(0)>> >>)),
     Some(TerrainDataset(<<-10, 7, 8>>,
                         << <<Num(0), Num(9807), NaN>>,
                            <<Num(0), Num(4903), Num(14710)>> >>)),
     Some(TerrainDataset(<<0, 7, 350>>,
                         << <<Num(0), Num(9807), Num(0)>>,
                            <<Num(0), Num(4903), Num(0)>> >>))}

LonValues == {-190, -180, -10, 0, 7, 8, 180, 350, 360, 370}

\* Terrain datasets over every longitude array of 1..MaxLons LonValues; the
\* geopotential of a cell tells its original row and column.
TaggedTerrainFiles ==
    UNION {{Some(TerrainDataset(longitude,
                    [i \in 1..2 |-> [j \in 1..n |-> Num(100 * i + j)]])) :
               longitude \in [1..n -> LonValues]} : n \in 1..MaxLons}

-----------------------------------------------------------------------------
(* The helper functions of get_climate_data.py. *)

RECURSIVE StableArgsort(_, _)
\* The positions of `vals` not in `done`, by ascending value and, among
\* equal values, by ascending position (np.lexsort, as sortby uses it).
StableArgsort(vals, done) ==
    IF done = 1..Len(vals) THEN << >>
    ELSE LET rest == (1..Len(vals)) \ done
             m == CHOOSE i \in rest :
                     \A j \in rest : \/ vals[i] < vals[j]
                                     \/ (vals[i] = vals[j] /\ i <= j)
         IN  <<m>> \o StableArgsort(vals, done \cup {m})

_adjust_longitude_nosort_mut(ds) ==
    [ds EXCEPT !.longitude =
        [j \in 1..Len(ds.longitude) |-> ((ds.longitude[j] + 180) % 360) - 180]]

\* _adjust_longitude(ds): the longitudes mapped by ((lon + 180) % 360) - 180
\* and the grid sorted by the new longitude.
_adjust_longitude(ds) ==
    LET lon   == [j \in 1..Len(ds.longitude) |->
                     ((ds.longitude[j] + 180) % 360) - 180]
        order == StableArgsort(lon, {})
    IN  [ds EXCEPT
            !.longitude = [j \in 1..Len(lon) |-> lon[order[j]]],
            !.z = [i \in 1..Len(ds.z) |->
                      [j \in 1..Len(lon) |-> ds.z[i][order[j]]]]]

\* _crop_geopotential raises InvalidIndexError when nearest-neighbour
\* selection is asked of an index with repeated coordinates.
CropRaises(ds) == HasDuplicates(ds.longitude) \/ HasDuplicates(ds.latitude)

\* _crop_geopotential(ds, lat, lon): the terrain cells nearest to the
\* coordinates of the climate grid.
_crop_geopotential(ds, lat, lon) ==
    LET ilat == [i \in 1..Len(lat) |-> NearestIndex(ds.latitude, lat[i])]
        ilon == [j \in 1..Len(lon) |-> NearestIndex(ds.longitude, lon[j])]
    IN  [ds EXCEPT
            !.latitude = [i \in 1..Len(lat) |-> ds.latitude[ilat[i]]],
            !.longitude = [j \in 1..Len(lon) |-> ds.longitude[ilon[j]]],
            !.z = [i \in 1..Len(lat) |->
                      [j \in 1..Len(lon) |-> ds.z[ilat[i]][ilon[j]]]]]

Pow10(d) == <<1, 10, 100, 1000, 10000, 100000, 1000000, 10000000,
             100000000, 1000000000>>[d + 1]

RECURSIVE ScaledRemainder(_, _, _)
\* floor(r * 10^d / b) for 0 <= r < b, digit by digit.
ScaledRemainder(r, b, d) ==
    IF d = 0 THEN 0
    ELSE ((r * 10) \div b) * Pow10(d - 1)
           + ScaledRemainder((r * 10) % b, b, d - 1)

\* floor(a * 10^d / b) for b > 0, without forming a * 10^d.
ScaledDiv(a, b, d) == (a \div b) * Pow10(d) + ScaledRemainder(a % b, b, d)

RECURSIVE ShiftMod(_, _, _)
\* (r * 10^d) % b for 0 <= r < b.
ShiftMod(r, b, d) == IF d = 0 THEN r ELSE ShiftMod((r * 10) % b, b, d - 1)

\* r_earth * (z / g) / (r_earth - z / g) for one cell of geopotential z (a
\* whole number of m2/s2), rounded to 1/100 m.  With h = z / g the value is
\* h + h * h / (r_earth - h).  h is hm whole metres and f7 / 10^7 m more;
\* the second term c7 is taken in 1/10^7 m from hm * hm, 2 * hm * f7 and
\* the square of the fraction, over r_earth - hm.  Its four truncations
\* lose under 4/10^7 m, against which 1 is added before rounding.  For
\* every whole z from -100000 to 183000 the result is the code's float
\* rounded half up to 1/100 m.
GeopotentialHeight(z) ==
    IF IsNaN(z) THEN NaN
    ELSE LET hm == ScaledDiv(z[1], g_e5, 5)
             f7 == ScaledRemainder(ShiftMod(z[1] % g_e5, g_e5, 5), g_e5, 7)
             f4 == f7 \div 1000
             g3 == f7 % 1000
             d  == r_earth - hm
             c7 == ScaledDiv(hm * hm, d, 7) + ScaledDiv(2 * hm * f4, d, 3)
                     + (2 * hm * g3) \div d + (f4 * f4) \div (10 * d)
         IN  Num(Metres(hm) + (f7 + c7 + 1 + 50000) \div 100000)

\* _calculate_geopotential_height(ds)
_calculate_geopotential_height(ds) ==
    [ds EXCEPT !.altitude_climate =
        [i \in 1..Len(ds.z) |->
            [j \in 1..Len(ds.z[i]) |-> GeopotentialHeight(ds.z[i][j])]]]

\* The cell of variable number v at the given grid positions in experiment
\* version e of the climate file: each cell is populated in one version
\* (the first for the first half of the time axis, the second after it) and
\* missing in the other; t2m is in 1/100 K.  The populated value tells the
\* variable, the grid cell and the timestamp apart.
RawCell(ds, v, ilat, ilon, itime, e) ==
    LET tag == (((v - 1) * Len(ds.latitude) + (ilat - 1)) * Len(ds.longitude)
                   + (ilon - 1)) * Len(ds.time) + itime
        version == IF 2 * itime <= Len(ds.time) THEN 1 ELSE 2
    IN  IF e # version THEN NaN
        ELSE IF ClimateVariables[v] = "t2m" THEN Num(KelvinOffset + tag)
        ELSE Num(tag)

\* ds_climate["t2m"] - 273.15, when change_units asked for it.
UnitCell(ds, v, ilat, ilon, itime, e) ==
    LET raw == RawCell(ds, v, ilat, ilon, itime, e)
    IN  IF ds.celsius /\ ClimateVariables[v] = "t2m" /\ ~IsNaN(raw)
        THEN Num(raw[1] - KelvinOffset)
        ELSE raw

NanToZero(x) == IF IsNaN(x) THEN 0 ELSE x[1]

\* ds_climate.reduce(np.nansum, "expver"): the sum over the versions,
\* missing values counting as 0.
ClimateCell(ds, v, ilat, ilon, itime) ==
    Num(NanToZero(UnitCell(ds, v, ilat, ilon, itime, 1))
          + NanToZero(UnitCell(ds, v, ilat, ilon, itime, 2)))

\* _generate_climate_variable_names: calendar.month_abbr, a list whose
\* position 0 is the empty string.
month_abbr == <<"", "Jan", "Feb", "Mar", "Apr", "May", "Jun", "Jul", "Aug",
                "Sep", "Oct", "Nov", "Dec">>

\* f"_{month.lower()}"
LowerMonthName(month) ==
    CASE month = "Jan" -> "_jan" [] month = "Feb" -> "_feb"
      [] month = "Mar" -> "_mar" [] month = "Apr" -> "_apr"
      [] month = "May" -> "_may" [] month = "Jun" -> "_jun"
      [] month = "Jul" -> "_jul" [] month = "Aug" -> "_aug"
      [] month = "Sep" -> "_sep" [] month = "Oct" -> "_oct"
      [] month = "Nov" -> "_nov" [] month = "Dec" -> "_dec"
      [] OTHER -> "_"

\* months_names: month_abbr[10:] + month_abbr[1:10], lower-cased.
months_names ==
    LET months == Slice(month_abbr, 10, Len(month_abbr))
                      \o Slice(month_abbr, 1, 10)
    IN  [k \in 1..Len(months) |-> LowerMonthName(months[k])]

\* _generate_climate_variable_names(ds_climate): variable first, month
\* second.
_generate_climate_variable_names ==
    [q \in 1..(Len(ClimateVariables) * Len(months_names)) |->
        << ClimateVariables[((q - 1) \div Len(months_names)) + 1],
           months_names[((q - 1) % Len(months_names)) + 1] >>]

\* _add_date_range(df)
_add_date_range(f) ==
    AddColumn(f, range_date,
              [i \in 1..Len(f.rows) |->
                  _create_date_range(ColumnValues(f, YEAR)[i])])

\* _process_climate_data fails with AttributeError on `r.values` when the
\* range_date of a row is None.
ProcessClimateRaises(f) ==
    \E i \in 1..Len(f.rows) : IsNone(ColumnValues(f, range_date)[i])

\* The climate variables of one selected cell, in dataset order.
ClimateRow(ds, ilat, ilon, itime) ==
    [v \in 1..Len(ClimateVariables) |-> ClimateCell(ds, v, ilat, ilon, itime)]

\* The long table of _process_climate_data: one row per (point, time), in
\* that order, with one column per climate variable.
ClimateLongRows(ds, f) ==
    LET lat    == ColumnValues(f, POINT_LAT)
        lon    == ColumnValues(f, POINT_LON)
        dates  == ColumnValues(f, range_date)
        days   == [k \in 1..Len(ds.time) |-> DayNumber(ds.time[k])]
        ntimes == Len(Val(dates[1]))
    IN  [r \in 1..(Len(f.rows) * ntimes) |->
            LET p == ((r - 1) \div ntimes) + 1
                t == ((r - 1) % ntimes) + 1
            IN  ClimateRow(ds, NearestIndex(ds.latitude, lat[p][1]),
                           NearestIndex(ds.longitude, lon[p][1]),
                           NearestIndex(days, DayNumber(Val(dates[p])[t])))]

\* _process_climate_data(ds_climate, df): the long table reshaped to
\* (groups, 12, columns), transposed to (groups, columns, 12) and flattened
\* to one row of 12 * columns cells per group.
_process_climate_data(ds, f) ==
    LET long     == ClimateLongRows(ds, f)
        num_cols == Len(ClimateVariables)
        flat(k)  == long[(k \div num_cols) + 1][(k % num_cols) + 1]
        reshaped(grp, t, c) == flat((grp * MonthsPerYear + t) * num_cols + c)
        groups   == (Len(long) * num_cols) \div (MonthsPerYear * num_cols)
    IN  Frame(_generate_climate_variable_names, RangeIndex(groups),
              [grp \in 1..groups |->
                  [q \in 1..(MonthsPerYear * num_cols) |->
                      reshaped(grp - 1, (q - 1) % MonthsPerYear,
                               (q - 1) \div MonthsPerYear)]])

latitude == <<"latitude">>
longitude == <<"longitude">>
z == <<"z">>
altitude_climate == <<"altitude_climate">>
ALTITUDE_CLIMATE == <<"ALTITUDE_CLIMATE">>
ELEVATION_DIFFERENCE == <<"ELEVATION_DIFFERENCE">>

\* _process_altitude_data raises InvalidIndexError when the cropped grid
\* repeats a coordinate.
ProcessAltitudeRaises(ds) ==
    HasDuplicates(ds.longitude) \/ HasDuplicates(ds.latitude)

\* _process_altitude_data(ds_geopotential, df): for every point the terrain
\* cell nearest to it, as a table indexed by point number.
_process_altitude_data(ds, f) ==
    LET lat == ColumnValues(f, POINT_LAT)
        lon == ColumnValues(f, POINT_LON)
    IN  Frame(<<latitude, longitude, z, altitude_climate>>,
              RangeIndex(Len(f.rows)),
              [p \in 1..Len(f.rows) |->
                  LET i == NearestIndex(ds.latitude, lat[p][1])
                      j == NearestIndex(ds.longitude, lon[p][1])
                  IN  << Num(ds.latitude[i]), Num(ds.longitude[j]),
                         ds.z[i][j], ds.altitude_climate[i][j] >>])

_combine_dataframes_dropfirst_mut(f, cf, af) ==
    DropNa(RenameColumn(
               Concat3(ResetIndex(DropColumns(f, {range_date})),
                       ResetIndex(cf),
                       ResetIndex(DropNa(DropColumns(af, {latitude, longitude, z}),
                                         altitude_climate))),
               altitude_climate, ALTITUDE_CLIMATE),
           ALTITUDE_CLIMATE)

\* _combine_dataframes(df, climate_df, altitude_df)
_combine_dataframes(f, cf, af) ==
    DropNa(RenameColumn(
               Concat3(ResetIndex(DropColumns(f, {range_date})),
                       ResetIndex(cf),
                       ResetIndex(DropColumns(af, {latitude, longitude, z}))),
               altitude_climate, ALTITUDE_CLIMATE),
           ALTITUDE_CLIMATE)

\* a - b on float cells.
Minus(a, b) == IF IsNaN(a) \/ IsNaN(b) THEN NaN ELSE Num(a[1] - b[1])

\* _calculate_elevation_difference(df)
_calculate_elevation_difference(f) ==
    AddColumn(f, ELEVATION_DIFFERENCE,
              [i \in 1..Len(f.rows) |->
                  Minus(ColumnValues(f, ALTITUDE_CLIMATE)[i],
                        ColumnValues(f, POINT_ELEVATION)[i])])

-----------------------------------------------------------------------------
(* get_climate_features, step by step. *)

\* The call of get_climate_features: its arguments and the two files.
InitArgs(frames, units, climate, terrain) ==
    /\ args \in [df : frames, change_units : units,
                 climate_data : climate, geopotential_data : terrain]
    /\ pc = "start"
    /\ df = args.df
    /\ ds_climate = << >>
    /\ ds_geopotential = << >>
    /\ climate_df = << >>
    /\ altitude_df = << >>
    /\ raised = "none"
    /\ csv = None

Raise(exception) ==
    /\ raised' = exception
    /\ pc' = "done"

\* Lines 44-58: the existence check, _load_datasets and the unit change.
LoadDatasets ==
    /\ pc = "start"
    /\ UNCHANGED loaderVars
    /\ IF IsNone(args.climate_data) \/ IsNone(args.geopotential_data)
       THEN /\ Raise("FileNotFoundError")
            /\ UNCHANGED <<ds_climate, ds_geopotential>>
       ELSE /\ ds_climate' = [Val(args.climate_data) EXCEPT
                                 !.celsius = args.change_units]
            /\ ds_geopotential' = Val(args.geopotential_data)
            /\ pc' = "loaded"
            /\ UNCHANGED raised
    /\ UNCHANGED <<df, climate_df, altitude_df, args, csv>>

\* Line 61: ds_180 = _adjust_longitude(ds_geopotential)
AdjustLongitude ==
    /\ pc = "loaded"
    /\ UNCHANGED loaderVars
    /\ ds_geopotential' = _adjust_longitude(ds_geopotential)
    /\ pc' = "adjusted"
    /\ UNCHANGED <<df, ds_climate, climate_df, altitude_df, raised, args, csv>>

\* Line 64: _crop_geopotential(ds_180, lat, lon)
CropGeopotential ==
    /\ pc = "adjusted"
    /\ UNCHANGED loaderVars
    /\ IF CropRaises(ds_geopotential)
       THEN /\ Raise("InvalidIndexError")
            /\ UNCHANGED ds_geopotential
       ELSE /\ ds_geopotential' =
                  _crop_geopotential(ds_geopotential, ds_climate.latitude,
                                     ds_climate.longitude)
            /\ pc' = "cropped"
            /\ UNCHANGED raised
    /\ UNCHANGED <<df, ds_climate, climate_df, altitude_df, args, csv>>

\* Lines 67-70: _calculate_geopotential_height and the expver reduction.
CalculateHeight ==
    /\ pc = "cropped"
    /\ UNCHANGED loaderVars
    /\ ds_geopotential' = _calculate_geopotential_height(ds_geopotential)
    /\ ds_climate' = [ds_climate EXCEPT !.reduced = TRUE]
    /\ pc' = "reduced"
    /\ UNCHANGED <<df, climate_df, altitude_df, raised, args, csv>>

\* Line 73: df = _add_date_range(df).  _add_date_range assigns the column
\* in place, and df is still the frame the caller passed, so the caller's
\* frame gets the column too.
AddDateRange ==
    /\ pc = "reduced"
    /\ UNCHANGED loaderVars
    /\ df' = _add_date_range(df)
    /\ args' = [args EXCEPT !.df = df']
    /\ pc' = "ranged"
    /\ UNCHANGED <<ds_climate, ds_geopotential, climate_df, altitude_df,
                   raised, csv>>

\* Line 77: climate_df = _process_climate_data(ds_climate, df)
ProcessClimateData ==
    /\ pc = "ranged"
    /\ UNCHANGED loaderVars
    /\ IF ProcessClimateRaises(df)
       THEN /\ Raise("AttributeError")
            /\ UNCHANGED climate_df
       ELSE /\ climate_df' = _process_climate_data(ds_climate, df)
            /\ pc' = "climate"
            /\ UNCHANGED raised
    /\ UNCHANGED <<df, ds_climate, ds_geopotential, altitude_df, args, csv>>

\* Line 80: altitude_df = _process_altitude_data(ds_geopotential_metric, df)
ProcessAltitudeData ==
    /\ pc = "climate"
    /\ UNCHANGED loaderVars
    /\ IF ProcessAltitudeRaises(ds_geopotential)
       THEN /\ Raise("InvalidIndexError")
            /\ UNCHANGED altitude_df
       ELSE /\ altitude_df' = _process_altitude_data(ds_geopotential, df)
            /\ pc' = "altitude"
            /\ UNCHANGED raised
    /\ UNCHANGED <<df, ds_climate, ds_geopotential, climate_df, args, csv>>

\* Line 83: df = _combine_dataframes(df, climate_df, altitude_df)
CombineDataframes ==
    /\ pc = "altitude"
    /\ UNCHANGED loaderVars
    /\ df' = _combine_dataframes(df, climate_df, altitude_df)
    /\ pc' = "combined"
    /\ UNCHANGED <<ds_climate, ds_geopotential, climate_df, altitude_df,
                   raised, args, csv>>

\* Lines 86-90: the elevation difference, df.to_csv(index=False), return.
WriteAndReturn ==
    /\ pc = "combined"
    /\ UNCHANGED loaderVars
    /\ df' = _calculate_elevation_difference(df)
    /\ csv' = Some([columns |-> df'.columns, rows |-> df'.rows])
    /\ pc' = "done"
    /\ UNCHANGED <<ds_climate, ds_geopotential, climate_df, altitude_df,
                   raised, args>>

LoaderIdle ==
    /\ data = << >>
    /\ random_seed = 0
    /\ test_size = None
    /\ n_splits = None
    /\ cv_split = None
    /\ train_indices = None
    /\ test_indices = None
    /\ ret = Outcome("none", "none", "none")

NextClimate ==
    \/ LoadDatasets
    \/ AdjustLongitude
    \/ CropGeopotential
    \/ CalculateHeight
    \/ AddDateRange
    \/ ProcessClimateData
    \/ ProcessAltitudeData
    \/ CombineDataframes
    \/ WriteAndReturn

InitClimate ==
    LoaderIdle /\ InitArgs(InputFrames, BOOLEAN, ClimateFiles, TerrainFiles)

\* get_climate_features on the stake tables and the terrain files above.
SpecClimate == InitClimate /\ [][NextClimate]_vars

InitLongitude ==
    /\ LoaderIdle
    /\ InitArgs({Frame(StakeColumns, RangeIndex(1),
                       << <<Num(1), Num(46), Num(7), Num(Metres(1000)), Num(2000)>> >>)},
                {FALSE}, {Some(ClimateDataset(MonthStartAxis))},
                TaggedTerrainFiles)

\* get_climate_features on one stake and every tagged terrain file.
SpecLongitude == InitLongitude /\ [][NextClimate]_vars

-----------------------------------------------------------------------------
(* Properties of get_climate_features, checked under SpecClimate and       *)
(* SpecLongitude.                                                          *)

\* The month suffixes of a hydrological year, September first.
HydrologicalMonths == <<"_sep", "_oct", "_nov", "_dec", "_jan", "_feb",
                        "_mar", "_apr", "_may", "_jun", "_jul", "_aug">>

\* The cell of variable number v selected for the k-th timestamp of the
\* date range of row p of the current table.
SelectedCell(p, v, k) ==
    LET days == [t \in 1..Len(ds_climate.time) |-> DayNumber(ds_climate.time[t])]
    IN  ClimateCell(ds_climate, v,
            NearestIndex(ds_climate.latitude, ColumnValues(df, POINT_LAT)[p][1]),
            NearestIndex(ds_climate.longitude, ColumnValues(df, POINT_LON)[p][1]),
            NearestIndex(days,
                DayNumber(Val(ColumnValues(df, range_date)[p])[k])))

\* C5: the wide climate table has, for every variable v, the 12 columns
\* v_sep, v_oct, ..., v_aug in that order, variable first, and the column
\* of the k-th month holds the value of v selected for the k-th timestamp
\* of the record's date range.
ClimateColumnsSepToAug ==
    pc \in {"climate", "altitude"} =>
        /\ climate_df.columns =
              [q \in 1..(Len(ClimateVariables) * 12) |->
                  << ClimateVariables[((q - 1) \div 12) + 1],
                     HydrologicalMonths[((q - 1) % 12) + 1] >>]
        /\ \A p \in 1..Len(df.rows), v \in 1..Len(ClimateVariables), k \in 1..12 :
              climate_df.rows[p][(v - 1) * 12 + k] = SelectedCell(p, v, k)

\* The rows of the input table whose YEAR is missing.
MissingYearRows ==
    {i \in 1..Len(args.df.rows) : IsNaN(ColumnValues(args.df, YEAR)[i])}

\* C6: a call whose table has a record with a missing YEAR does not fail
\* on that record; it returns a table without the record.
MissingYearIsFiltered ==
    (pc = "done" /\ MissingYearRows # {}
       /\ raised \notin {"FileNotFoundError", "InvalidIndexError"})
        => /\ raised = "none"
           /\ \A i \in MissingYearRows :
                 args.df.rows[i][1] \notin Range(ColumnValues(df, ID))

\* What get_climate_features computes for record r taken alone, with the
\* datasets as the call has prepared them: the record's cells, its wide
\* climate row, its terrain elevation and the elevation difference.
EnrichedAlone(r) ==
    LET f   == _add_date_range(Frame(StakeColumns, RangeIndex(1), <<r>>))
        cf  == _process_climate_data(ds_climate, f)
        af  == _process_altitude_data(ds_geopotential, f)
        alt == ColumnValues(af, altitude_climate)[1]
    IN  r \o cf.rows[1] \o <<alt, Minus(alt, ColumnValues(f, POINT_ELEVATION)[1])>>

\* C7: the table get_climate_features returns (and writes) holds exactly
\* the input records whose terrain elevation is not missing, in input
\* order, each with the climate and terrain values selected for that
\* record; it has at most as many rows as the input, and as many when no
\* terrain elevation is missing.
OutputIsFilteredInput ==
    (pc = "done" /\ raised = "none") =>
        LET in       == DropColumns(args.df, {range_date}).rows
            enriched == [i \in 1..Len(in) |-> EnrichedAlone(in[i])]
            keep     == {i \in 1..Len(in) :
                            ~IsNaN(enriched[i][Len(enriched[i]) - 1])}
        IN  /\ df.rows = SelectSeq2(enriched, keep, 1)
            /\ Val(csv).rows = df.rows
            /\ df.columns = StakeColumns \o _generate_climate_variable_names
                               \o <<ALTITUDE_CLIMATE, ELEVATION_DIFFERENCE>>
            /\ Len(df.rows) <= Len(in)
            /\ keep = 1..Len(in) => Len(df.rows) = Len(in)

\* C7 witness: a call returned a table from which the first of two records,
\* of a table under non-default index labels, was dropped.
OutputIsFilteredInputWitness ==
    /\ pc = "done"
    /\ raised = "none"
    /\ Len(args.df.rows) = 2
    /\ args.df.index # RangeIndex(2)
    /\ args.df.rows[1] # args.df.rows[2]
    /\ Len(df.rows) = 1
    /\ df.rows[1][1] = args.df.rows[2][1]

\* C8: the date range of every record with a defined year Y has exactly 12
\* timestamps, each a month end, strictly increasing, from the month end of
\* September of Y - 1 to the month end of August of Y.
HydrologicalRangeCorrect ==
    pc \in {"ranged", "climate", "altitude"} =>
        \A i \in 1..Len(df.rows) :
            LET year == ColumnValues(df, YEAR)[i]
                r    == ColumnValues(df, range_date)[i]
            IN  ~IsNaN(year) =>
                   /\ ~IsNone(r)
                   /\ Len(Val(r)) = 12
                   /\ \A k \in 1..Len(Val(r)) : IsMonthEnd(Val(r)[k])
                   /\ \A k \in 1..(Len(Val(r)) - 1) :
                         DayNumber(Val(r)[k]) < DayNumber(Val(r)[k + 1])
                   /\ Val(r)[1] = <<year[1] - 1, 9, 30>>
                   /\ Val(r)[Len(Val(r))] = <<year[1], 8, 31>>

\* C8 witness: the date ranges were added to a table with a record of the
\* leap year 2000 and a record of the year 2100.
HydrologicalRangeCorrectWitness ==
    /\ pc = "ranged"
    /\ Num(2000) \in Range(ColumnValues(df, YEAR))
    /\ Num(2100) \in Range(ColumnValues(df, YEAR))
    /\ \A i \in 1..Len(df.rows) : ~IsNone(ColumnValues(df, range_date)[i])

\* C9: _adjust_longitude maps every longitude into [-180, 180), returns the
\* grid sorted by ascending longitude, and maps its own result to itself.
LongitudeNormalizedSortedIdempotent ==
    pc = "adjusted" =>
        LET lon == ds_geopotential.longitude
        IN  /\ \A j \in 1..Len(lon) : -180 <= lon[j] /\ lon[j] < 180
            /\ \A j \in 1..(Len(lon) - 1) : lon[j] <= lon[j + 1]
            /\ Len(lon) = Len(Val(args.geopotential_data).longitude)
            /\ _adjust_longitude(ds_geopotential) = ds_geopotential

\* C9 witness: a grid was adjusted whose longitudes were unsorted, lay on
\* both sides outside the range, and of which two fell together.
LongitudeNormalizedSortedIdempotentWitness ==
    /\ pc = "adjusted"
    /\ LET before == Val(args.geopotential_data).longitude
       IN  /\ \E j \in 1..Len(before) : before[j] >= 180
           /\ \E j \in 1..Len(before) : before[j] < -180
           /\ before[1] > before[2]
           /\ ~HasDuplicates(before)
    /\ HasDuplicates(ds_geopotential.longitude)

====
